---- MODULE Spec2Model ----
(***************************************************************************)
(* State-machine model of app/services/user_service.py (UserService).      *)
(*                                                                         *)
(* The store is the users table seen through the SQLAlchemy session: a     *)
(* function from the ids of the stored rows to their column values.  Ids   *)
(* are UUIDs in the program, so an id is never handed out twice; here they *)
(* are 1, 2, ... in order of insertion (nextId is the next one).           *)
(* Every service method is an operator from the table and the arguments    *)
(* to the table it commits and the value it returns, and one action that   *)
(* applies it: a call runs from its lookup to its commit without           *)
(* interleaving, as in a service that handles one request at a time.       *)
(* registered records history: whether a create has registered a row yet.  *)
(* calls holds the create and login_user calls that run at the same time,  *)
(* each in its own session and stopped at one of its awaits (SpecRace);    *)
(* it stays idle where the calls run one at a time.                        *)
(***************************************************************************)
EXTENDS Integers, FiniteSets, Sequences, TLC

VARIABLES store, nextId, max_login_attempts, registered, calls

vars == <<store, nextId, max_login_attempts, registered, calls>>

(***************************************************************************)
(* Bounds of the model.                                                    *)
(***************************************************************************)
MaxUsers == 3          \* rows ever inserted
MaxClock == 2          \* latest time of a login
MaxAttempts == 2       \* largest configured settings.max_login_attempts
MaxCalls == 2          \* calls made at the same time, each in its own session

(***************************************************************************)
(* Values.                                                                 *)
(***************************************************************************)
None == 0                      \* Python None / NULL, for ids and timestamps
NoValue == "None"              \* Python None / NULL, for strings

Emails == {"a@x.org", "b@x.org"}
BadEmail == "not-an-email"     \* rejected by the EmailStr fields
EmailInputs == Emails \cup {BadEmail}
Passwords == {"pw1", "pw2"}
Tokens == {"tok1", "tok2"}
TokenInputs == Tokens \cup {NoValue}
Ids == 1..MaxUsers

ADMIN == "ADMIN"
AUTHENTICATED == "AUTHENTICATED"
ANONYMOUS == "ANONYMOUS"
UserRole == {ADMIN, AUTHENTICATED, ANONYMOUS}

(***************************************************************************)
(* app.utils.security: a salted one-way hash and its check.  The hash of a *)
(* password is not the password; verify_password accepts exactly the       *)
(* password that was hashed.                                               *)
(***************************************************************************)
hash_password(password) == <<"bcrypt", password>>

verify_password(password, hashed) == hashed = hash_password(password)

(***************************************************************************)
(* app.models.user_model.User: a new row with the column defaults.         *)
(***************************************************************************)
User(email, hashed_password) ==
    [email |-> email,
     hashed_password |-> hashed_password,
     role |-> ANONYMOUS,
     email_verified |-> FALSE,
     verification_token |-> NoValue,
     failed_login_attempts |-> 0,
     is_locked |-> FALSE,
     last_login_at |-> None]

(***************************************************************************)
(* Lookups and writes.                                                     *)
(***************************************************************************)
\* get_by_id: the id of the row with that id, or None
get_by_id(s, user_id) == IF user_id \in DOMAIN s THEN user_id ELSE None

\* get_by_email: the id of the (first) row with that email, or None
get_by_email(s, email) ==
    IF \E i \in DOMAIN s : s[i].email = email
    THEN CHOOSE i \in DOMAIN s :
            /\ s[i].email = email
            /\ \A j \in DOMAIN s : s[j].email = email => i <= j
    ELSE None

\* count without filters: select count(*) from users
count(s) == Cardinality(DOMAIN s)

\* the store with row i replaced
Put(s, i, row) == [s EXCEPT ![i] = row]

\* the store with a new row i
Insert(s, i, row) == [j \in DOMAIN s \cup {i} |-> IF j = i THEN row ELSE s[j]]

\* the store without row i
Remove(s, i) == [j \in DOMAIN s \ {i} |-> s[j]]

\* what a method that returns Optional[User] leaves: the table, the id of the
\* returned row or None
Returns(s, user) == [store |-> s, user |-> user]

\* what a method that returns bool leaves
Reports(s, ok) == [store |-> s, ok |-> ok]

(***************************************************************************)
(* create, lines 61-88.                                                    *)
(***************************************************************************)
CreateRoleSecondToo(user_count) == IF user_count <= 1 THEN ADMIN ELSE ANONYMOUS

\* line 72
CreateRole(user_count) == IF user_count = 0 THEN ADMIN ELSE ANONYMOUS

NewUserAlwaysVerified(s, email, password, token) ==
    LET new_user == User(email, hash_password(password))
        role == CreateRole(count(s))
    IN  IF role = ADMIN
        THEN [new_user EXCEPT !.role = role, !.email_verified = TRUE]
        ELSE [new_user EXCEPT !.role = role, !.email_verified = TRUE,
                              !.verification_token = token]

\* lines 68-77: the row create builds
NewUser(s, email, password, token) ==
    LET new_user == User(email, hash_password(password))
        role == CreateRole(count(s))
    IN  IF role = ADMIN
        THEN [new_user EXCEPT !.role = role, !.email_verified = TRUE]
        ELSE [new_user EXCEPT !.role = role, !.verification_token = token]

CreateRejectedNoLookup(s, email) == email \notin Emails

CreateRejectedFirstRow(s, email) ==
    \/ email \notin Emails
    \/ \E i \in DOMAIN s : s[i].email = email /\ \A j \in DOMAIN s : i <= j

\* lines 63-67: validation failed, or the email is taken
CreateRejected(s, email) ==
    \/ email \notin Emails
    \/ get_by_email(s, email) # None

\* id: the UUID the new row gets
\* token: what generate_verification_token() returns
\* nick_clash: generate_nickname() returned a nickname some row already has,
\*             so the commit raises IntegrityError (lines 82-85)
\* mail_ok: send_verification_email() returned (else it raised, lines 86-88)
create(s, id, email, password, token, nick_clash, mail_ok) ==
    IF CreateRejected(s, email) THEN Returns(s, None)
    ELSE IF nick_clash /\ count(s) > 0 THEN Returns(s, None)
    ELSE Returns(Insert(s, id, NewUser(s, email, password, token)),
                 IF mail_ok THEN id ELSE None)

\* the outcomes of the three calls create makes, where they can matter: the
\* token when the row is not ADMIN, the nickname when there is a row to
\* clash with, none of them when the call is rejected before
CreateOutcomes(s, email) ==
    IF CreateRejected(s, email) THEN {<<NoValue, FALSE, TRUE>>}
    ELSE (IF count(s) = 0 THEN {NoValue} ELSE Tokens)
         \X (IF count(s) = 0 THEN {FALSE} ELSE BOOLEAN)
         \X BOOLEAN

Create(email, password) ==
    \E o \in CreateOutcomes(store, email) :
        LET r == create(store, nextId, email, password, o[1], o[2], o[3])
        IN  /\ r.store # store => nextId <= MaxUsers
            /\ store' = r.store
            /\ nextId' = IF r.store # store THEN nextId + 1 ELSE nextId
            /\ registered' = (registered \/ r.store # store)
            /\ UNCHANGED <<max_login_attempts, calls>>

(***************************************************************************)
(* login_user, lines 164-190.                                              *)
(***************************************************************************)
LoginBlockedUnverifiedOnly(user) == user.email_verified = FALSE

LoginBlockedLockedOnly(user) == user.is_locked

\* lines 174-177: the account may not log in
LoginBlocked(user) == user.email_verified = FALSE \/ user.is_locked

\* lines 179-180
LoginSucceeded(user, now) ==
    [user EXCEPT !.failed_login_attempts = 0, !.last_login_at = now]

LoginFailedLocksLate(user, max) ==
    LET attempts == user.failed_login_attempts + 1
    IN  [user EXCEPT !.failed_login_attempts = attempts,
                     !.is_locked = IF attempts > max THEN TRUE ELSE @]

\* lines 185-187
LoginFailed(user, max) ==
    LET attempts == user.failed_login_attempts + 1
    IN  [user EXCEPT !.failed_login_attempts = attempts,
                     !.is_locked = IF attempts >= max THEN TRUE ELSE @]

\* line 180, datetime.now(timezone.utc): a time no earlier than any time
\* already stamped on a row
Now(s) == {t \in 1..MaxClock : \A i \in DOMAIN s : s[i].last_login_at <= t}

\* lines 166-172: the row the call names
LoginTarget(s, email) == IF email \in Emails THEN get_by_email(s, email) ELSE None

\* max: settings.max_login_attempts
login_user(s, max, email, password, now) ==
    LET uid == LoginTarget(s, email)
    IN  IF uid = None THEN Returns(s, None)
        ELSE IF LoginBlocked(s[uid]) THEN Returns(s, None)
        ELSE IF verify_password(password, s[uid].hashed_password)
        THEN Returns(Put(s, uid, LoginSucceeded(s[uid], now)), uid)
        ELSE Returns(Put(s, uid, LoginFailed(s[uid], max)), None)

LoginUser(email, password) ==
    \E now \in Now(store) :
        LET r == login_user(store, max_login_attempts, email, password, now)
        IN  /\ store' = r.store
            /\ UNCHANGED <<nextId, max_login_attempts, registered, calls>>

(***************************************************************************)
(* reset_password, lines 198-209.                                          *)
(***************************************************************************)
PasswordResetKeepsLock(user, hashed_password) ==
    [user EXCEPT !.hashed_password = hashed_password,
                 !.failed_login_attempts = 0]

\* lines 203-205
PasswordReset(user, hashed_password) ==
    [user EXCEPT !.hashed_password = hashed_password,
                 !.failed_login_attempts = 0,
                 !.is_locked = FALSE]

reset_password(s, user_id, new_password) ==
    LET uid == get_by_id(s, user_id)
    IN  IF uid # None
        THEN Reports(Put(s, uid, PasswordReset(s[uid], hash_password(new_password))), TRUE)
        ELSE Reports(s, FALSE)

ResetPassword(user_id, new_password) ==
    LET r == reset_password(store, user_id, new_password)
    IN  /\ store' = r.store
        /\ UNCHANGED <<nextId, max_login_attempts, registered, calls>>

(***************************************************************************)
(* verify_email_with_token, lines 211-225.                                 *)
(***************************************************************************)
\* line 217: the supplied token is accepted
TokenMatches(user, token) == ~(user.verification_token # token)

EmailVerifiedKeepsToken(user) ==
    [user EXCEPT !.email_verified = TRUE, !.role = AUTHENTICATED]

EmailVerifiedUnlocks(user) ==
    [user EXCEPT !.email_verified = TRUE,
                 !.verification_token = NoValue,
                 !.role = AUTHENTICATED,
                 !.is_locked = FALSE]

\* lines 220-222
EmailVerified(user) ==
    [user EXCEPT !.email_verified = TRUE,
                 !.verification_token = NoValue,
                 !.role = AUTHENTICATED]

verify_email_with_token(s, user_id, token) ==
    LET uid == get_by_id(s, user_id)
    IN  IF uid = None THEN Reports(s, FALSE)
        ELSE IF ~TokenMatches(s[uid], token) THEN Reports(s, FALSE)
        ELSE Reports(Put(s, uid, EmailVerified(s[uid])), TRUE)

VerifyEmailWithToken(user_id, token) ==
    LET r == verify_email_with_token(store, user_id, token)
    IN  /\ store' = r.store
        /\ UNCHANGED <<nextId, max_login_attempts, registered, calls>>

(***************************************************************************)
(* unlock_user_account, lines 285-294.                                     *)
(***************************************************************************)
UnlockAppliesToAny(s, uid) == uid # None

\* line 288
UnlockApplies(s, uid) == uid # None /\ s[uid].is_locked

UnlockedKeepsCounter(user) == [user EXCEPT !.is_locked = FALSE]

\* lines 289-290
Unlocked(user) == [user EXCEPT !.is_locked = FALSE, !.failed_login_attempts = 0]

unlock_user_account(s, user_id) ==
    LET uid == get_by_id(s, user_id)
    IN  IF UnlockApplies(s, uid)
        THEN Reports(Put(s, uid, Unlocked(s[uid])), TRUE)
        ELSE Reports(s, FALSE)

UnlockUserAccount(user_id) ==
    LET r == unlock_user_account(store, user_id)
    IN  /\ store' = r.store
        /\ UNCHANGED <<nextId, max_login_attempts, registered, calls>>

(***************************************************************************)
(* delete, lines 111-119.                                                  *)
(***************************************************************************)
deleteAlwaysTrue(s, user_id) ==
    Reports(IF user_id \in DOMAIN s THEN Remove(s, user_id) ELSE s, TRUE)

delete(s, user_id) ==
    LET uid == get_by_id(s, user_id)
    IN  IF uid = None THEN Reports(s, FALSE) ELSE Reports(Remove(s, uid), TRUE)

Delete(user_id) ==
    LET r == delete(store, user_id)
    IN  /\ store' = r.store
        /\ UNCHANGED <<nextId, max_login_attempts, registered, calls>>

(***************************************************************************)
(* update, lines 90-109.  update_data carries an email, a password or      *)
(* both (Unset: the key is absent).                                        *)
(***************************************************************************)
Unset == "unset"

\* lines 93-96: the columns the UPDATE statement sets
Patched(user, email, password) ==
    [user EXCEPT !.email = IF email = Unset THEN @ ELSE email,
                 !.hashed_password = IF password = Unset THEN @ ELSE hash_password(password)]

\* the UPDATE breaks the unique index on users.email: IntegrityError
EmailConflict(s, user_id, email) ==
    /\ user_id \in DOMAIN s
    /\ email # Unset
    /\ \E j \in DOMAIN s \ {user_id} : s[j].email = email

\* lines 98-99 with _execute_query, lines 32-40: the store after the statement
\* (committed, or rolled back on SQLAlchemyError)
UpdateExecuted(s, user_id, email, password) ==
    IF user_id \in DOMAIN s /\ ~EmailConflict(s, user_id, email)
    THEN Put(s, user_id, Patched(s[user_id], email, password))
    ELSE s

update(s, user_id, email, password) ==
    IF email = BadEmail THEN Returns(s, None)
    ELSE LET after == UpdateExecuted(s, user_id, email, password)
         IN  Returns(after, get_by_id(after, user_id))

Update(user_id, email, password) ==
    /\ email # Unset \/ password # Unset
    /\ store' = update(store, user_id, email, password).store
    /\ UNCHANGED <<nextId, max_login_attempts, registered, calls>>

(***************************************************************************)
(* create and login_user, call by call and await by await.  Each call has  *)
(* its own session; what it has read stays as it read it until it commits. *)
(***************************************************************************)
Procs == 1..MaxCalls

\* op: the method; pc: the await the call has come to; seen: the row its
\* lookup returned (a store of that one row, or of none); user_count: what
\* count returned; user: the id of its new row, then the value it returns
Call(op, pc, email, password, seen, user_count, user) ==
    [op |-> op, pc |-> pc, email |-> email, password |-> password,
     seen |-> seen, user_count |-> user_count, user |-> user]

Idle == Call("idle", "idle", NoValue, NoValue, <<>>, 0, None)

\* a store of as many rows as count returned: create builds its row from
\* the count it has read
Counted(user_count) == [i \in 1..user_count |-> User(NoValue, NoValue)]

\* the call has come to its return: what it read and what it returns
Done(call, user) ==
    Call(call.op, "done", NoValue, NoValue, call.seen, 0, user)

\* the row with that id as a lookup returns it
Only(s, uid) == [i \in DOMAIN s \cap {uid} |-> s[i]]

\* the sessions are taken in order, one for each call
Free(p) == calls[p] = Idle /\ \A q \in Procs : q < p => calls[q] # Idle

FlushRelative(row, seen, new) ==
    [row EXCEPT !.failed_login_attempts =
                    IF new.failed_login_attempts > seen.failed_login_attempts
                    THEN @ + 1 ELSE new.failed_login_attempts,
                !.is_locked = new.is_locked,
                !.last_login_at = new.last_login_at]

\* session.add(user); session.commit(): the UPDATE sets the columns the call
\* has given a value other than the one it read
Flush(row, seen, new) ==
    [c \in DOMAIN row |-> IF new[c] # seen[c] THEN new[c] ELSE row[c]]

\* lines 166-177: validation, lookup and the checks on the row that was read
LoginLookup(p, email, password) ==
    /\ Free(p)
    /\ LET uid == LoginTarget(store, email)
           call == Call("login_user", "found", email, password, Only(store, uid), 0, None)
       IN  calls' = [calls EXCEPT ![p] =
                        IF uid = None \/ LoginBlocked(store[uid])
                        THEN Done(call, None)
                        ELSE call]
    /\ UNCHANGED <<store, nextId, max_login_attempts, registered>>

\* lines 178-189: the store after the call has committed what it made of the
\* row it read
LoginCommitted(s, call, max, now) ==
    LET uid == CHOOSE i \in DOMAIN call.seen : TRUE
        seen == call.seen[uid]
        new == IF verify_password(call.password, seen.hashed_password)
               THEN LoginSucceeded(seen, now)
               ELSE LoginFailed(seen, max)
    IN  Put(s, uid, Flush(s[uid], seen, new))

LoginCommit(p) ==
    /\ calls[p].op = "login_user" /\ calls[p].pc = "found"
    /\ \E now \in Now(store) :
          store' = LoginCommitted(store, calls[p], max_login_attempts, now)
    /\ LET uid == CHOOSE i \in DOMAIN calls[p].seen : TRUE
       IN  calls' = [calls EXCEPT ![p] =
                        Done(@, IF verify_password(calls[p].password,
                                                   calls[p].seen[uid].hashed_password)
                                THEN uid ELSE None)]
    /\ UNCHANGED <<nextId, max_login_attempts, registered>>

\* lines 63-67
CreateLookup(p, email, password) ==
    /\ Free(p)
    /\ LET call == Call("create", "looked", email, password, <<>>, 0, None)
       IN  calls' = [calls EXCEPT ![p] =
                        IF CreateRejected(store, email) THEN Done(call, None) ELSE call]
    /\ UNCHANGED <<store, nextId, max_login_attempts, registered>>

\* line 71
CreateCount(p) ==
    /\ calls[p].op = "create" /\ calls[p].pc = "looked"
    /\ calls' = [calls EXCEPT ![p].pc = "counted", ![p].user_count = count(store)]
    /\ UNCHANGED <<store, nextId, max_login_attempts, registered>>

\* the INSERT breaks the unique index on users.email or on users.nickname
InsertConflict(s, email, nick_clash) ==
    \/ \E i \in DOMAIN s : s[i].email = email
    \/ nick_clash /\ count(s) > 0

\* lines 72-79 and 82-85: the row is built from the count that was read and
\* committed, or the commit raises and is rolled back
CreateCommit(p) ==
    /\ calls[p].op = "create" /\ calls[p].pc = "counted"
    /\ \E token \in (IF calls[p].user_count = 0 THEN {NoValue} ELSE Tokens),
          nick_clash \in (IF count(store) = 0 THEN {FALSE} ELSE BOOLEAN) :
          IF InsertConflict(store, calls[p].email, nick_clash)
          THEN /\ calls' = [calls EXCEPT ![p] = Done(@, None)]
               /\ UNCHANGED <<store, nextId, registered>>
          ELSE /\ nextId <= MaxUsers
               /\ store' = Insert(store, nextId,
                                  NewUser(Counted(calls[p].user_count), calls[p].email,
                                          calls[p].password, token))
               /\ nextId' = nextId + 1
               /\ registered' = TRUE
               /\ calls' = [calls EXCEPT ![p].pc = "committed", ![p].user = nextId]
    /\ UNCHANGED max_login_attempts

\* lines 80-81 and 86-88
CreateMail(p) ==
    /\ calls[p].op = "create" /\ calls[p].pc = "committed"
    /\ \E mail_ok \in BOOLEAN :
          calls' = [calls EXCEPT ![p] = Done(@, IF mail_ok THEN @.user ELSE None)]
    /\ UNCHANGED <<store, nextId, max_login_attempts, registered>>

Init ==
    /\ store = <<>>
    /\ nextId = 1
    /\ max_login_attempts \in 1..MaxAttempts
    /\ registered = FALSE
    /\ calls = [p \in Procs |-> Idle]

Next ==
    \/ \E email \in EmailInputs, password \in Passwords : Create(email, password)
    \/ \E email \in EmailInputs, password \in Passwords : LoginUser(email, password)
    \/ \E user_id \in Ids, new_password \in Passwords : ResetPassword(user_id, new_password)
    \/ \E user_id \in Ids, token \in TokenInputs : VerifyEmailWithToken(user_id, token)
    \/ \E user_id \in Ids : UnlockUserAccount(user_id)
    \/ \E user_id \in Ids : Delete(user_id)

\* the operations of the account state machine: registration, login,
\* verification, password reset, unlock, deletion
Spec == Init /\ [][Next]_vars

\* the same with update
NextAll ==
    \/ Next
    \/ \E user_id \in Ids, email \in EmailInputs \cup {Unset}, password \in Passwords \cup {Unset} :
            Update(user_id, email, password)

SpecAll == Init /\ [][NextAll]_vars

\* create calls that run at the same time
NextCreateRace ==
    \/ \E p \in Procs, email \in EmailInputs, password \in Passwords : CreateLookup(p, email, password)
    \/ \E p \in Procs : CreateCount(p)
    \/ \E p \in Procs : CreateCommit(p)
    \/ \E p \in Procs : CreateMail(p)

SpecCreateRace == Init /\ [][NextCreateRace]_vars

\* login_user calls that run at the same time, on the accounts that create
\* has registered
NextLoginRace ==
    \/ \E email \in EmailInputs, password \in Passwords : Create(email, password)
    \/ \E p \in Procs, email \in EmailInputs, password \in Passwords : LoginLookup(p, email, password)
    \/ \E p \in Procs : LoginCommit(p)

SpecLoginRace == Init /\ [][NextLoginRace]_vars

(***************************************************************************)
(* Properties.  Each is stated of every reachable table and of every call  *)
(* that can be made on it: the method's operator gives the table the call  *)
(* commits and the value it returns.                                       *)
(***************************************************************************)
IsAdminRow(row) ==
    row.role = ADMIN /\ row.email_verified = TRUE /\ row.verification_token = NoValue

IsAnonymousRow(row) ==
    row.role = ANONYMOUS /\ row.email_verified = FALSE /\ row.verification_token \in Tokens

\* every way a create call can go on the table
CreateCalls ==
    {create(store, nextId, email, password, token, nick_clash, mail_ok) :
        email \in EmailInputs, password \in Passwords, token \in Tokens,
        nick_clash \in BOOLEAN, mail_ok \in BOOLEAN}

\* C1 as stated (a create succeeds when it registers a row): the first create
\* ever to succeed yields a row that is ADMIN, verified and has no token;
\* every later create that succeeds yields a row that is ANONYMOUS, unverified
\* and has a token.
C1_FirstEverAdmin ==
    \A r \in CreateCalls :
        r.store # store =>
            IF ~registered THEN IsAdminRow(r.store[nextId])
                           ELSE IsAnonymousRow(r.store[nextId])

\* C1 amended: a create that succeeds while the store holds no row yields a
\* row that is ADMIN, verified and has no token; a create that succeeds while
\* the store holds a row yields one that is ANONYMOUS, unverified and has a
\* token.
C1_EmptyStoreAdmin ==
    \A r \in CreateCalls :
        r.store # store =>
            /\ DOMAIN r.store = DOMAIN store \cup {nextId}
            /\ r.user \in {nextId, None}
            /\ IF DOMAIN store = {} THEN IsAdminRow(r.store[nextId])
                                    ELSE IsAnonymousRow(r.store[nextId])

\* an ADMIN registered in an empty store after the deletion of the rows before
\* it, and an ANONYMOUS registered beside it
C1_Witness ==
    /\ registered
    /\ \E i, j \in DOMAIN store :
         1 < i /\ i < j /\ IsAdminRow(store[i]) /\ IsAnonymousRow(store[j])

\* C2: create with an email some row already has returns None and leaves the
\* store as it was.
C2_DuplicateEmailRejected ==
    \A i \in DOMAIN store, password \in Passwords, token \in Tokens,
       nick_clash \in BOOLEAN, mail_ok \in BOOLEAN :
        create(store, nextId, store[i].email, password, token, nick_clash, mail_ok)
            = Returns(store, None)

\* two accounts are registered, and a create with the email of the second is
\* turned down
C2_Witness ==
    /\ count(store) > 1
    /\ \E i \in DOMAIN store :
         /\ store[i].role = ANONYMOUS
         /\ create(store, nextId, store[i].email, "pw1", "tok1", FALSE, TRUE).user = None

\* the table after k logins in a row with the same email and password
RECURSIVE Logins(_, _, _, _, _)
Logins(s, max, email, password, k) ==
    IF k = 0 THEN s
    ELSE login_user(Logins(s, max, email, password, k - 1), max, email, password, MaxClock).store

Fresh(row) == row.email_verified /\ ~row.is_locked /\ row.failed_login_attempts = 0

\* C3: from a verified, unlocked account with no failed attempts, k logins in
\* a row with a wrong password leave it locked when k = max_login_attempts
\* and unlocked when k < max_login_attempts; after fewer, a login with the
\* right password returns the account, sets its counter to 0 and leaves it
\* unlocked.
C3_LockAfterMaxAttempts ==
    \A i \in DOMAIN store, wrong \in Passwords, right \in Passwords :
        (/\ Fresh(store[i])
         /\ ~verify_password(wrong, store[i].hashed_password)
         /\ verify_password(right, store[i].hashed_password))
        => \A k \in 0..max_login_attempts :
             LET s == Logins(store, max_login_attempts, store[i].email, wrong, k)
             IN  /\ s[i].is_locked <=> k = max_login_attempts
                 /\ k < max_login_attempts =>
                      \A now \in Now(s) :
                          LET r == login_user(s, max_login_attempts, store[i].email, right, now)
                          IN  /\ r.user = i
                              /\ r.store[i].failed_login_attempts = 0
                              /\ ~r.store[i].is_locked

\* an account has been locked by the last of several failed logins
C3_Witness ==
    /\ max_login_attempts > 1
    /\ \E i \in DOMAIN store :
         /\ store[i].is_locked
         /\ store[i].failed_login_attempts = max_login_attempts

\* C4: login on an account that is locked or unverified returns None, whatever
\* the password.
C4_BlockedLoginFails ==
    \A i \in DOMAIN store, password \in Passwords, now \in Now(store) :
        (store[i].is_locked \/ ~store[i].email_verified)
        => login_user(store, max_login_attempts, store[i].email, password, now).user = None

\* a locked account and an unverified one, each turned down with its own
\* password
C4_Witness ==
    \E i, j \in DOMAIN store, pi \in Passwords, pj \in Passwords :
        /\ store[i].is_locked /\ store[i].email_verified
        /\ ~store[j].email_verified
        /\ verify_password(pi, store[i].hashed_password)
        /\ verify_password(pj, store[j].hashed_password)
        /\ login_user(store, max_login_attempts, store[i].email, pi, MaxClock).user = None
        /\ login_user(store, max_login_attempts, store[j].email, pj, MaxClock).user = None

\* C5: verify_email returns True exactly when the row exists and the supplied
\* token equals the stored one; then the row is verified, has no token and is
\* AUTHENTICATED; when it returns False the store is unchanged.
C5_VerifyEmailIffTokenMatches ==
    \A user_id \in Ids, token \in TokenInputs :
        LET r == verify_email_with_token(store, user_id, token)
        IN  /\ r.ok <=> (/\ user_id \in DOMAIN store
                         /\ store[user_id].verification_token = token)
            /\ r.ok =>
                 r.store = Put(store, user_id,
                               [store[user_id] EXCEPT !.email_verified = TRUE,
                                                      !.verification_token = NoValue,
                                                      !.role = AUTHENTICATED])
            /\ ~r.ok => r.store = store

\* one account has been verified, another still holds its token and is
\* verified by it and by no other token
C5_Witness ==
    \E i, j \in DOMAIN store :
        /\ store[i].role = AUTHENTICATED /\ store[i].verification_token = NoValue
        /\ store[j].verification_token \in Tokens
        /\ \A token \in TokenInputs :
             verify_email_with_token(store, j, token).ok
                 <=> token = store[j].verification_token

\* C6: on an account whose stored token is cleared, verify_email returns False
\* for every supplied token (None included) and does not change the role.
C6_TokenSingleUse ==
    \A i \in DOMAIN store, token \in TokenInputs :
        store[i].verification_token = NoValue
        => LET r == verify_email_with_token(store, i, token)
           IN  /\ ~r.ok
               /\ r.store[i].role = store[i].role

\* what reset_password returns and does to the row, C7's first and last part
ResetPasswordEffect(user_id, r) ==
    IF user_id \in DOMAIN store
    THEN /\ r.ok
         /\ ~r.store[user_id].is_locked
         /\ r.store[user_id].failed_login_attempts = 0
    ELSE /\ ~r.ok
         /\ r.store = store

\* the login with the account's email and the new password made right after
\* the reset returns the account
LoginAfterReset(user_id, new_password, r) ==
    \A now \in Now(r.store) :
        login_user(r.store, max_login_attempts, r.store[user_id].email,
                   new_password, now).user = user_id

\* C7 as stated: reset_password on an existing account returns True, unlocks
\* it and zeroes its counter, and the login with the new password made right
\* after it succeeds; on an unknown id it returns False and changes nothing.
C7_ResetThenLoginSucceeds ==
    \A user_id \in Ids, new_password \in Passwords :
        LET r == reset_password(store, user_id, new_password)
        IN  /\ ResetPasswordEffect(user_id, r)
            /\ user_id \in DOMAIN store => LoginAfterReset(user_id, new_password, r)

\* C7 amended: the login with the new password made right after the reset
\* succeeds when the account's email is verified.
C7_ResetThenLoginSucceedsIfVerified ==
    \A user_id \in Ids, new_password \in Passwords :
        LET r == reset_password(store, user_id, new_password)
        IN  /\ ResetPasswordEffect(user_id, r)
            /\ (user_id \in DOMAIN store /\ store[user_id].email_verified)
                 => LoginAfterReset(user_id, new_password, r)

\* a locked account is there to be reset, and logs in after the reset with a
\* password that was not its password before
C7_Witness ==
    \E i \in DOMAIN store, new_password \in Passwords :
        /\ store[i].is_locked
        /\ ~verify_password(new_password, store[i].hashed_password)
        /\ LoginAfterReset(i, new_password, reset_password(store, i, new_password))

\* the tables after every call that is not unlock, reset_password or delete
\* of row i
AfterOtherCalls(i) ==
    {r.store : r \in CreateCalls}
    \cup {login_user(store, max_login_attempts, email, password, now).store :
            email \in EmailInputs, password \in Passwords, now \in Now(store)}
    \cup {verify_email_with_token(store, user_id, token).store :
            user_id \in Ids, token \in TokenInputs}
    \cup {unlock_user_account(store, user_id).store : user_id \in Ids \ {i}}
    \cup {reset_password(store, user_id, password).store :
            user_id \in Ids \ {i}, password \in Passwords}
    \cup {delete(store, user_id).store : user_id \in Ids \ {i}}

\* C8: a locked account stays locked over every call that is not unlock or
\* reset_password on it (or its own deletion).
C8_LockedUntilUnlockOrReset ==
    \A i \in DOMAIN store :
        store[i].is_locked
        => \A s \in AfterOtherCalls(i) : i \in DOMAIN s /\ s[i].is_locked

\* a locked account beside another account
C8_Witness ==
    \E i, j \in DOMAIN store : i # j /\ store[i].is_locked /\ ~store[j].is_locked

\* C9: unlock returns True exactly when the row exists and is locked, and then
\* clears the lock and the counter; otherwise it returns False and the store
\* is unchanged.
C9_UnlockOnlyWhenLocked ==
    \A user_id \in Ids :
        LET r == unlock_user_account(store, user_id)
        IN  /\ r.ok <=> (user_id \in DOMAIN store /\ store[user_id].is_locked)
            /\ r.ok =>
                 r.store = Put(store, user_id,
                               [store[user_id] EXCEPT !.is_locked = FALSE,
                                                      !.failed_login_attempts = 0])
            /\ ~r.ok => r.store = store

\* an unlocked account with failed attempts, which unlock turns down, beside
\* a locked one, which it unlocks
C9_Witness ==
    \E i, j \in DOMAIN store :
        /\ ~store[i].is_locked /\ store[i].failed_login_attempts > 0
        /\ ~unlock_user_account(store, i).ok
        /\ store[j].is_locked
        /\ unlock_user_account(store, j).ok

\* C10: update returns None and leaves the store unchanged when the input is
\* invalid, the store rejects the write, or no row has the id.
C10_UpdateFailureReturnsNone ==
    \A user_id \in Ids, email \in EmailInputs \cup {Unset}, password \in Passwords \cup {Unset} :
        (/\ email # Unset \/ password # Unset
         /\ \/ email = BadEmail
            \/ EmailConflict(store, user_id, email)
            \/ user_id \notin DOMAIN store)
        => update(store, user_id, email, password) = Returns(store, None)

\* C11: no two rows of the store have the same email, after any sequence of
\* create, update and delete (and the other calls).
C11_EmailUnique ==
    \A i, j \in DOMAIN store : store[i].email = store[j].email => i = j

\* two accounts; the update that would give the second the email of the first
\* is rolled back, and so is the create with that email, while an update of
\* the password goes through
C11_Witness ==
    \E i, j \in DOMAIN store :
        /\ i < j
        /\ update(store, j, store[i].email, Unset).store = store
        /\ update(store, j, Unset, "pw1").store # store
        /\ create(store, nextId, store[i].email, "pw1", "tok1", FALSE, TRUE).store = store

\* C12: delete returns True and removes the row with that id, and no other,
\* leaving the other rows as they were, when the row exists; it returns False
\* and leaves the store unchanged when it does not.
C12_DeleteRemovesExactlyOne ==
    \A user_id \in Ids :
        LET r == delete(store, user_id)
        IN  /\ r.ok <=> user_id \in DOMAIN store
            /\ r.ok =>
                 /\ DOMAIN r.store = DOMAIN store \ {user_id}
                 /\ \A j \in DOMAIN r.store : r.store[j] = store[j]
            /\ ~r.ok => r.store = store

\* two accounts, one of which delete removes, and an id that no row has
\* (its row was deleted), which delete turns down
C12_Witness ==
    \E i, j \in DOMAIN store, k \in Ids :
        /\ i # j
        /\ k < nextId /\ k \notin DOMAIN store
        /\ delete(store, i).ok
        /\ j \in DOMAIN delete(store, i).store
        /\ ~delete(store, k).ok

\* the calls that have read row uid with a password that does not fit it,
\* at the given await
FailingLogins(uid, pc) ==
    {p \in Procs :
        /\ calls[p].op = "login_user" /\ calls[p].pc = pc
        /\ DOMAIN calls[p].seen = {uid}
        /\ ~LoginBlocked(calls[p].seen[uid])
        /\ IF pc = "found"
           THEN ~verify_password(calls[p].password, calls[p].seen[uid].hashed_password)
           ELSE calls[p].user = None}

\* the calls that have read row uid
LoginsOn(uid) == {p \in Procs : calls[p].op = "login_user" /\ DOMAIN calls[p].seen = {uid}}

\* C13: the increment of the counter of failed logins is not atomic.  A
\* login with a wrong password commits one more than the counter it read,
\* whatever the counter of the row is by then: when another failed login on
\* the row has committed in between, the counter does not grow.  So when all
\* the logins on an account have read the same row and have failed, the
\* counter stands one above what they read however many they are, and the
\* account is locked only if that reaches max_login_attempts.
C13_FailedLoginsUnderCount ==
    \A uid \in DOMAIN store :
        /\ \A p \in FailingLogins(uid, "found"), now \in Now(store) :
             LET seen == calls[p].seen[uid]
                 after == LoginCommitted(store, calls[p], max_login_attempts, now)[uid]
             IN  /\ after.failed_login_attempts = seen.failed_login_attempts + 1
                 /\ store[uid].failed_login_attempts > seen.failed_login_attempts
                      => after.failed_login_attempts <= store[uid].failed_login_attempts
                 /\ after.is_locked <=>
                      (store[uid].is_locked
                       \/ seen.failed_login_attempts + 1 >= max_login_attempts)
        /\ (/\ LoginsOn(uid) # {}
            /\ LoginsOn(uid) = FailingLogins(uid, "done")
            /\ \A p, q \in LoginsOn(uid) : calls[p].seen = calls[q].seen)
           => \A p \in LoginsOn(uid) :
                /\ store[uid].failed_login_attempts
                     = calls[p].seen[uid].failed_login_attempts + 1
                /\ store[uid].is_locked <=>
                     store[uid].failed_login_attempts >= max_login_attempts

\* two logins with a wrong password on the same account have both returned;
\* the counter has gone from 0 to 1, and with max_login_attempts = 2 the
\* account is not locked after its two failed logins
C13_Witness ==
    \E uid \in DOMAIN store : \E p, q \in FailingLogins(uid, "done") :
        /\ p # q
        /\ calls[p].seen[uid].failed_login_attempts = 0
        /\ calls[q].seen[uid].failed_login_attempts = 0
        /\ store[uid].failed_login_attempts = 1
        /\ max_login_attempts = 2
        /\ ~store[uid].is_locked

\* C14: every row is locked exactly when its counter of failed logins has
\* reached max_login_attempts, and the counter is never above it.
C14_LockedIffCounterAtMax ==
    \A i \in DOMAIN store :
        /\ store[i].is_locked <=> store[i].failed_login_attempts >= max_login_attempts
        /\ store[i].failed_login_attempts <= max_login_attempts

\* an account locked by its failed logins, whose counter a further login does
\* not move, beside an unlocked one with failed logins below the maximum
C14_Witness ==
    \E i, j \in DOMAIN store, password \in Passwords :
        /\ store[i].is_locked /\ store[i].email_verified
        /\ ~verify_password(password, store[i].hashed_password)
        /\ login_user(store, max_login_attempts, store[i].email, password, MaxClock).store = store
        /\ ~store[j].is_locked
        /\ store[j].failed_login_attempts > 0

\* C15: every row has a verification token exactly when it is unverified; an
\* unverified row is ANONYMOUS, a verified row is ADMIN or AUTHENTICATED.
C15_TokenIffUnverified ==
    \A i \in DOMAIN store :
        /\ store[i].verification_token # NoValue <=> ~store[i].email_verified
        /\ ~store[i].email_verified => store[i].role = ANONYMOUS
        /\ store[i].email_verified => store[i].role \in {ADMIN, AUTHENTICATED}

\* an account verified by its token, beside one that still holds its token
C15_Witness ==
    \E i, j \in DOMAIN store :
        /\ i > 1
        /\ store[i].role = AUTHENTICATED /\ store[i].email_verified
        /\ store[j].role = ANONYMOUS /\ store[j].verification_token \in Tokens

\* C16: whenever create returns None the store holds the rows it held before
\* the call, also when it is send_verification_email that fails.
C16_CreateFailureLeavesStore ==
    \A r \in CreateCalls : r.user = None => r.store = store

\* C17: a login turned down because the email is unknown, or the account is
\* unverified or locked, leaves the store as it was; the counter of a row
\* grows only by a wrong password on that row when it is verified and
\* unlocked (and then by one); the time of last login of a row changes only
\* when the login returns that row.
C17_LoginFrame ==
    \A email \in EmailInputs, password \in Passwords, now \in Now(store) :
        LET r == login_user(store, max_login_attempts, email, password, now)
            uid == IF \E i \in DOMAIN store : store[i].email = email
                   THEN CHOOSE i \in DOMAIN store : store[i].email = email
                   ELSE None
            open == /\ uid # None
                    /\ store[uid].email_verified
                    /\ ~store[uid].is_locked
            wrong == open /\ ~verify_password(password, store[uid].hashed_password)
        IN  /\ DOMAIN r.store = DOMAIN store
            /\ ~open => r.store = store /\ r.user = None
            /\ wrong => r.store[uid].failed_login_attempts
                            = store[uid].failed_login_attempts + 1
            /\ \A i \in DOMAIN store :
                 /\ r.store[i].failed_login_attempts > store[i].failed_login_attempts
                      => wrong /\ i = uid
                 /\ r.store[i].last_login_at # store[i].last_login_at
                      => r.user = i
                 /\ (i # uid \/ r.user = None)
                      => r.store[i].last_login_at = store[i].last_login_at
                 /\ r.store[i].is_locked # store[i].is_locked => wrong /\ i = uid

\* an account that has logged in and has failed logins since, beside an
\* unverified one whose login with its own password changes nothing
C17_Witness ==
    \E i, j \in DOMAIN store, password \in Passwords :
        /\ store[i].last_login_at # None
        /\ store[i].failed_login_attempts > 0
        /\ ~store[j].email_verified
        /\ verify_password(password, store[j].hashed_password)
        /\ login_user(store, max_login_attempts, store[j].email, password, MaxClock)
             = Returns(store, None)

\* C18: when create calls run at the same time on a store that was empty, at
\* most one of the rows they register is ADMIN.
C18_AtMostOneAdmin ==
    Cardinality({i \in DOMAIN store : store[i].role = ADMIN}) <= 1

====
